---- MODULE Spec2Model ----
(***************************************************************************)
(* tfreadme: README generator for Terraform modules.                       *)
(*                                                                         *)
(* The module models                                                       *)
(*   - the table renderer markdownTable and the text/tabwriter it writes   *)
(*     through (src/unnamed/part_000:219-286),                             *)
(*   - the extraction hclTable (src/unnamed/part_000:196-217) and the      *)
(*     inline extraction loops of src/main.go:86-108 and 138-154,          *)
(*   - the run of main in src/unnamed/part_000:288-395,                    *)
(*   - the run of main in src/main.go:68-178 with exists (44-57).          *)
(*                                                                         *)
(* Text is a sequence of one-character strings.  A stream (standard        *)
(* output, another writer) is the sequence of characters written to it.    *)
(***************************************************************************)
EXTENDS Integers, Sequences, FiniteSets, TLC

VARIABLES
    pc,             \* position of the run / of the function under check
    stdout,         \* os.Stdout: every character written so far
    other,          \* a writer that is not os.Stdout (a caller's buffer)
    variablesFile,  \* state of the variables file on disk
    outputsFile,    \* state of the outputs file on disk
    hclVars,        \* rows extracted from the variables document
    hclOutputs,     \* rows extracted from the outputs document
    arg,            \* argument of the function under check
    ret             \* its result / how the run ended

vars == <<pc, stdout, other, variablesFile, outputsFile, hclVars, hclOutputs, arg, ret>>

(***************************************************************************)
(* Bounds of the model.                                                    *)
(***************************************************************************)
MaxCols == 2     \* columns of a table given to markdownTable
MaxRows == 1     \* rows of a table given to markdownTable
MaxBlocks == 2   \* blocks in the variables document of a run
MaxOutBlocks == 1  \* blocks in the outputs document of a run
MaxElems == 2    \* elements of the list under "variable" / "output"
MaxBodies == 2   \* block bodies in the list given to an extraction

Nil == "nil"

(***************************************************************************)
(* Text helpers.                                                           *)
(***************************************************************************)
RECURSIVE Flatten(_)
Flatten(ss) ==
    IF ss = <<>> THEN <<>> ELSE Head(ss) \o Flatten(Tail(ss))

RECURSIVE Repeat(_, _)
Repeat(ch, n) ==
    IF n <= 0 THEN <<>> ELSE <<ch>> \o Repeat(ch, n - 1)

MaxOf(S) == CHOOSE x \in S : \A y \in S : y <= x
MinOf(S) == CHOOSE x \in S : \A y \in S : x <= y

Count(ch, text) == Cardinality({i \in 1..Len(text) : text[i] = ch})

\* interface{} values that reach a formatting verb or a type assertion
Str(s) == [kind |-> "string", s |-> s, b |-> FALSE]
Bool(b) == [kind |-> "bool", s |-> <<>>, b |-> b]
Num == [kind |-> "number", s |-> <<>>, b |-> FALSE]
Absent == [kind |-> "absent", s |-> <<>>, b |-> FALSE]

(***************************************************************************)
(* text/tabwriter as markdownTable configures it:                          *)
(*   tabwriter.NewWriter(os.Stdout, 0, 0, 0, ' ', tabwriter.Debug)         *)
(* minwidth 0, tabwidth 0, padding 0, padchar ' ', cells left-aligned,     *)
(* a '|' between the cells of a line.  A cell is the text up to a tab; the *)
(* text after the last tab of a line is the line's trailing cell, which    *)
(* belongs to no column.  The writer buffers lines and passes them on,     *)
(* formatted, when it is flushed; a newline that ends a line of one cell   *)
(* (a line without a tab) flushes it as well.  A writer is modelled by the *)
(* text written to it so far.                                              *)
(***************************************************************************)
\* the pieces of text between the occurrences of sep
Split(text, sep) ==
    LET P == {i \in 1..Len(text) : text[i] = sep}
        n == Cardinality(P)
        Kth(k) == IF k = 0 THEN 0
                  ELSE IF k = n + 1 THEN Len(text) + 1
                  ELSE CHOOSE p \in P : Cardinality({q \in P : q <= p}) = k
    IN  [k \in 1..(n + 1) |-> SubSeq(text, Kth(k - 1) + 1, Kth(k) - 1)]

\* writeLines: the lines line0..line1-1, each cell padded to its column's
\* width when the column is known, a vbar before every cell but the first;
\* the last buffered line has no newline yet.
CellOut(line, j, widths) ==
    (IF j > 1 THEN <<"|">> ELSE <<>>)
        \o line[j]
        \o (IF j <= Len(widths) THEN Repeat(" ", widths[j] - Len(line[j])) ELSE <<>>)

LineOut(lines, i, widths) ==
    Flatten([j \in 1..Len(lines[i]) |-> CellOut(lines[i], j, widths)])
        \o (IF i = Len(lines) THEN <<>> ELSE <<"\n">>)

WriteLines(lines, line0, line1, widths) ==
    IF line0 >= line1 THEN <<>>
    ELSE Flatten([k \in 1..(line1 - line0) |-> LineOut(lines, line0 + k - 1, widths)])

\* format: a column block is a run of consecutive lines that have a
\* tab-terminated cell in the column; its width is its widest cell.
RECURSIVE Format(_, _, _, _)
Format(lines, line0, line1, widths) ==
    LET column == Len(widths) + 1
        HasCell(i) == column <= Len(lines[i]) - 1
        starts == {i \in line0..(line1 - 1) : HasCell(i)}
    IN  IF starts = {} THEN WriteLines(lines, line0, line1, widths)
        ELSE LET this == MinOf(starts)
                 breaks == {i \in this..(line1 - 1) : ~HasCell(i)}
                 stop == IF breaks = {} THEN line1 ELSE MinOf(breaks)
                 width == MaxOf({0} \cup {Len(lines[i][column]) : i \in this..(stop - 1)})
             IN  WriteLines(lines, line0, this, widths)
                     \o Format(lines, this, stop, Append(widths, width))
                     \o Format(lines, stop, line1, widths)

FormatAll(lines) == Format(lines, 1, Len(lines) + 1, <<>>)

NewWriter == <<>>

\* Write: the text joins what was written before
TwWrite(tw, text) == tw \o text

\* the lines a newline has ended, each the sequence of its cells
TwLines(tw) ==
    LET pieces == Split(tw, "\n")
    IN  [i \in 1..(Len(pieces) - 1) |-> Split(pieces[i], "\t")]

\* the line not ended yet, as Flush finds it: the current cell joins it
\* when it is not empty
TwLastLine(tw) ==
    LET pieces == Split(tw, "\n")
        cells == Split(pieces[Len(pieces)], "\t")
    IN  IF cells[Len(cells)] = <<>> THEN SubSeq(cells, 1, Len(cells) - 1) ELSE cells

\* the ended lines of one cell: each made the writer flush
TwFlushPoints(tw) ==
    LET lines == TwLines(tw) IN {i \in 1..Len(lines) : Len(lines[i]) = 1}

\* what Write alone has passed on: at every flush point, the lines since
\* the flush point before it, the new (empty) current line being the last
TwOut(tw) ==
    LET lines == TwLines(tw)
        F == TwFlushPoints(tw)
        Prev(f) == MaxOf({0} \cup {g \in F : g < f})
        Seg(f) == FormatAll(Append(SubSeq(lines, Prev(f) + 1, f), <<>>))
        Upto(f) == Cardinality({g \in F : g <= f})
        Kth(k) == CHOOSE f \in F : Upto(f) = k
    IN  Flatten([k \in 1..Cardinality(F) |-> Seg(Kth(k))])

\* Flush: what Write has passed on, then the lines still buffered
TwFlush(tw) ==
    LET lines == TwLines(tw)
        last == MaxOf({0} \cup TwFlushPoints(tw))
    IN  TwOut(tw) \o FormatAll(Append(SubSeq(lines, last + 1, Len(lines)), TwLastLine(tw)))

(***************************************************************************)
(* markdownTable (part_000:219-286).                                       *)
(***************************************************************************)
none == 0
left == 1
right == 2
center == 3
mdAlign == {none, left, right, center}

\* mdColumn{Name, Align, Mapping}; Mapping is nil or main's boolFmt.
mdColumn(name, align, mapping) == [Name |-> name, Align |-> align, Mapping |-> mapping]

\* boolFmt of main: "yes" / "no"; in.(bool) panics on anything else.
boolFmt(in) == IF in.b THEN Str(<<"y", "e", "s">>) ELSE Str(<<"n", "o">>)

\* the verb %v
FmtV(val) ==
    CASE val.kind = "string" -> val.s
      [] val.kind = "bool" -> IF val.b THEN <<"t", "r", "u", "e">> ELSE <<"f", "a", "l", "s", "e">>
      [] val.kind = "number" -> <<"5">>
      [] OTHER -> <<"<", "n", "i", "l", ">">>

\* " %s \t" of every column name after "| "
HeaderText(columns) ==
    <<"|", " ">>
        \o Flatten([i \in 1..Len(columns) |-> <<" ">> \o columns[i].Name \o <<" ", "\t">>])
        \o <<"\n">>

\* mutant of SepLead: the two groups of the first switch exchanged
SepLeadSwapped(align) == IF align \in {none, right} THEN ":" ELSE "-"

SepLead(align) == IF align \in {none, right} THEN "-" ELSE ":"
SepTrail(align) == IF align \in {none, left} THEN "-" ELSE ":"

SepCell(c) == <<SepLead(c.Align)>> \o Repeat("-", Len(c.Name)) \o <<SepTrail(c.Align)>>

SepText(columns) ==
    <<"|">>
        \o Flatten([i \in 1..Len(columns) |-> SepCell(columns[i]) \o <<"\t">>])
        \o <<"\n">>

\* the first column at which rendering the row panics (row[i] out of
\* range, boolFmt on a value that is no bool), 0 if none
RowPanicAt(columns, row) ==
    LET bad == {i \in 1..Len(columns) :
                    \/ i > Len(row)
                    \/ columns[i].Mapping = "boolFmt" /\ row[i].kind # "bool"}
    IN  IF bad = {} THEN 0 ELSE MinOf(bad)

RowCell(c, val) ==
    <<" ">> \o FmtV(IF c.Mapping = "boolFmt" THEN boolFmt(val) ELSE val) \o <<" ", "\t">>

RowText(columns, row) ==
    LET p == RowPanicAt(columns, row)
        n == IF p = 0 THEN Len(columns) ELSE p - 1
    IN  <<"|">>
            \o Flatten([i \in 1..n |-> RowCell(columns[i], row[i])])
            \o (IF p = 0 THEN <<"\n">> ELSE <<>>)

\* what the row loop writes to tw: every row up to the first that panics
RECURSIVE RowsText(_, _)
RowsText(columns, rows) ==
    IF rows = <<>> THEN <<>>
    ELSE IF RowPanicAt(columns, Head(rows)) # 0 THEN RowText(columns, Head(rows))
    ELSE RowText(columns, Head(rows)) \o RowsText(columns, Tail(rows))

RowsPanic(columns, rows) == \E i \in 1..Len(rows) : RowPanicAt(columns, rows[i]) # 0

\* the stream the tabwriter is built on: os.Stdout, whatever w is
TwDest(w) == "stdout"

\* mutant of markdownTable: it returns without tw.Flush()
markdownTableNoFlush(w, table) ==
    IF Len(table.columns) < 1
    THEN [err |-> "no columns to render", dest |-> TwDest(w), written |-> <<>>]
    ELSE [err |-> IF RowsPanic(table.columns, table.rows) THEN "panic" ELSE Nil,
          dest |-> TwDest(w),
          written |-> TwOut(TwWrite(TwWrite(TwWrite(NewWriter, HeaderText(table.columns)),
                                            SepText(table.columns)),
                                    RowsText(table.columns, table.rows)))]

\* markdownTable(w, table): [err, dest, written]: the error returned (or
\* "panic"), and the characters that reached the stream dest.
markdownTable(w, table) ==
    IF Len(table.columns) < 1
    THEN [err |-> "no columns to render", dest |-> TwDest(w), written |-> <<>>]
    ELSE LET tw0 == NewWriter
             tw1 == TwWrite(tw0, HeaderText(table.columns))
             tw2 == TwWrite(tw1, SepText(table.columns))
             tw3 == TwWrite(tw2, RowsText(table.columns, table.rows))
         IN  IF RowsPanic(table.columns, table.rows)
             THEN [err |-> "panic", dest |-> TwDest(w), written |-> TwOut(tw3)]
             ELSE [err |-> Nil, dest |-> TwDest(w), written |-> TwFlush(tw3)]

(***************************************************************************)
(* SpecTable: markdownTable as a function.  Init draws the writer and the  *)
(* table, CallMarkdownTable applies it.                                    *)
(***************************************************************************)
\* column i is named by the i-th of these (only the length of a name reaches
\* the separator line)
ColNames == << <<"N">>, <<"T", "y">>, <<"D", "e", "f">>, <<"R", "e", "q", "d">> >>

Columns(f) == [i \in 1..Len(f) |-> mdColumn(ColNames[i], f[i], "nil")]

CellVals == {Str(<<"a">>), Str(<<"|">>), Str(<<"\n">>)}

Writers == {"stdout", "other"}

InitTable ==
    /\ pc = "call"
    /\ \E n \in 0..MaxCols, m \in 0..MaxRows :
         \E f \in [1..n -> mdAlign], rs \in [1..m -> [1..n -> CellVals]], w \in Writers :
            arg = [w |-> w, table |-> [columns |-> Columns(f), rows |-> rs]]
    /\ stdout = <<>>
    /\ other = <<>>
    /\ variablesFile = Nil
    /\ outputsFile = Nil
    /\ hclVars = <<>>
    /\ hclOutputs = <<>>
    /\ ret = Nil

CallMarkdownTable ==
    /\ pc = "call"
    /\ \E r \in {markdownTable(arg.w, arg.table)} :
           /\ stdout' = IF r.dest = "stdout" THEN stdout \o r.written ELSE stdout
           /\ other' = IF r.dest = "other" THEN other \o r.written ELSE other
           /\ ret' = r.err
    /\ pc' = "returned"
    /\ UNCHANGED <<variablesFile, outputsFile, hclVars, hclOutputs, arg>>

NextTable == CallMarkdownTable

SpecTable == InitTable /\ [][NextTable]_vars

(***************************************************************************)
(* Reading a rendered table back as markdown.                              *)
(***************************************************************************)
\* the cells of a table line: the text between its unescaped '|', the
\* pieces before the first and after the last bar left out
MdCells(line) ==
    LET P == {i \in 1..Len(line) : line[i] = "|" /\ (i = 1 \/ line[i - 1] # "\\")}
        n == Cardinality(P)
        Kth(k) == CHOOSE p \in P : Cardinality({q \in P : q <= p}) = k
    IN  IF n < 2 THEN <<>>
        ELSE [k \in 1..(n - 1) |-> SubSeq(line, Kth(k) + 1, Kth(k + 1) - 1)]

\* a table line starts and ends with a bar
MdFramed(line) == Len(line) >= 2 /\ line[1] = "|" /\ line[Len(line)] = "|"

Trim(text) ==
    LET K == {i \in 1..Len(text) : text[i] # " "}
    IN  IF K = {} THEN <<>> ELSE SubSeq(text, MinOf(K), MaxOf(K))

\* a delimiter cell of a markdown table that says alignment a
MdDelimiter(cell, a) ==
    LET c == Trim(cell)
        n == Len(c)
        lead == a \in {left, center}
        trail == a \in {right, center}
        from == IF lead THEN 2 ELSE 1
        to == IF trail THEN n - 1 ELSE n
    IN  /\ n >= 1
        /\ (c[1] = ":") <=> lead
        /\ (c[n] = ":") <=> trail
        /\ from <= to
        /\ \A i \in from..to : c[i] = "-"

StreamLines(stream) == Split(stream, "\n")

(***************************************************************************)
(* C6: markdownTable aligns correctly: the separator line (the second line *)
(* written) has exactly one cell per column, in column order, and the cell *)
(* of a column says the column's alignment in markdown syntax: dashes only *)
(* for none, a colon at the start only for left, at the end only for       *)
(* right, at both ends for center.                                         *)
(***************************************************************************)
C6_SeparatorSaysAlignment ==
    (pc = "returned" /\ ret = Nil) =>
        LET columns == arg.table.columns
            line == StreamLines(stdout)[2]
            cells == MdCells(line)
        IN  /\ MdFramed(line)
            /\ Len(cells) = Len(columns)
            /\ \A i \in 1..Len(columns) : MdDelimiter(cells[i], columns[i].Align)

C6_Witness ==
    /\ pc = "returned"
    /\ ret = Nil
    /\ Len(arg.table.columns) = 2
    /\ arg.table.columns[1].Align = right
    /\ arg.table.columns[2].Align = left
    /\ Len(arg.table.rows) = 1

(***************************************************************************)
(* C7: the table renderer escapes cell values: every rendered row stays on *)
(* one line and has exactly as many cells as the table has columns, also   *)
(* when a value contains '|' or a line break.                              *)
(***************************************************************************)
C7_RowsKeepTheirCells ==
    (pc = "returned" /\ ret = Nil) =>
        LET columns == arg.table.columns
            rows == arg.table.rows
            lines == StreamLines(stdout)
        IN  /\ Len(lines) = 2 + Len(rows) + 1
            /\ lines[Len(lines)] = <<>>
            /\ \A i \in 1..Len(rows) :
                   /\ MdFramed(lines[2 + i])
                   /\ Len(MdCells(lines[2 + i])) = Len(columns)

(***************************************************************************)
(* C10: markdownTable(w, table) writes the whole table to the writer w it  *)
(* is given and nothing to any other stream: with w another writer than    *)
(* standard output, the table is in w and standard output is unchanged.    *)
(***************************************************************************)
C10_WritesToItsWriter ==
    (pc = "returned" /\ ret = Nil) =>
        /\ arg.w = "other" => (stdout = <<>> /\ other # <<>>)
        /\ arg.w = "stdout" => (other = <<>> /\ stdout # <<>>)

(***************************************************************************)
(* Extraction.  The list under "variable" (or "output") of a parsed        *)
(* document is a sequence of maps; a map takes block names to lists of     *)
(* bodies; a body takes field names to values.  A Go map is ranged over in *)
(* an order the language leaves open, so an extraction has a set of        *)
(* possible results, one per choice of orders.                             *)
(***************************************************************************)
Names == {"a", "b"}

\* x[field].(string) and x[field].(bool) in their two-value form: the zero
\* value when the field is absent or of another type
\* mutant of AsString: the value is formatted whatever its type (fmt.Sprint
\* in the place of the type assertion)
AsStringAnyKind(v) == IF v.kind = "absent" THEN <<>> ELSE FmtV(v)

AsString(v) == IF v.kind = "string" THEN v.s ELSE <<>>
AsBool(v) == IF v.kind = "bool" THEN v.b ELSE FALSE

\* the orders in which range can visit the keys S
Orders(S) == {o \in [1..Cardinality(S) -> S] : \A i, j \in 1..Cardinality(S) : o[i] = o[j] => i = j}

\* one order per map of the list
OrderChoices(vs) ==
    {o \in [1..Len(vs) -> UNION {Orders(DOMAIN vs[i]) : i \in 1..Len(vs)}] :
        \A i \in 1..Len(vs) : o[i] \in Orders(DOMAIN vs[i])}

\* the (name, body) pairs the three nested loops visit, in visiting order
Visits(vs, o) ==
    Flatten([i \in 1..Len(vs) |->
        Flatten([n \in 1..Len(o[i]) |->
            [k \in 1..Len(vs[i][o[i][n]]) |->
                [elem |-> i, name |-> o[i][n], body |-> vs[i][o[i][n]][k]]]])])

\* the zero HCLVar
ZeroRow ==
    [Name |-> <<>>, Description |-> <<>>, VarType |-> <<>>, DefaultVal |-> <<>>,
     Required |-> FALSE, Sensitive |-> FALSE]

\* hclTable's loop body (part_000:202-209)
hclRow(name, x) ==
    [Name |-> <<name>>,
     Description |-> AsString(x.description),
     VarType |-> AsString(x.type),
     DefaultVal |-> AsString(x.default),
     Required |-> AsString(x.default) = <<>>,
     Sensitive |-> AsBool(x.sensitive)]

\* the loop body of main.go:91-104 (variables)
inputRow(name, x) ==
    [Name |-> <<name>>,
     Description |-> AsString(x.description),
     VarType |-> AsString(x.type),
     DefaultVal |-> AsString(x.default),
     Required |-> AsString(x.default) # <<>>,
     Sensitive |-> FALSE]

\* the loop body of main.go:144-150 (outputs)
outputRow(name, x) ==
    [Name |-> <<name>>,
     Description |-> AsString(x.description),
     VarType |-> <<>>,
     DefaultVal |-> <<>>,
     Required |-> FALSE,
     Sensitive |-> AsBool(x.sensitive)]

\* hclTable (part_000:196-217): every visit appends its row
hclTable(vs) ==
    {[j \in 1..Len(Visits(vs, o)) |-> hclRow(Visits(vs, o)[j].name, Visits(vs, o)[j].body)]
        : o \in OrderChoices(vs)}

\* main.go:86-108 and 138-154: len(vs) zero rows are made, and every visit
\* stores its row at the index of its list element: the last visit of an
\* element is what stays
IndexedRows(vs, o, loop) ==
    LET vis == Visits(vs, o)
        Of(i) == {j \in 1..Len(vis) : vis[j].elem = i}
        Last(i) == vis[MaxOf(Of(i))]
    IN  [i \in 1..Len(vs) |->
            IF Of(i) = {} THEN ZeroRow
            ELSE IF loop = "input" THEN inputRow(Last(i).name, Last(i).body)
            ELSE outputRow(Last(i).name, Last(i).body)]

inputLoop(vs) == {IndexedRows(vs, o, "input") : o \in OrderChoices(vs)}

outputLoop(vs) == {IndexedRows(vs, o, "output") : o \in OrderChoices(vs)}

(***************************************************************************)
(* SpecExtract: the extractions as functions of the list they are given.   *)
(***************************************************************************)
FullBody ==
    [description |-> Str(<<"d">>), type |-> Str(<<"t">>), default |-> Str(<<"x">>),
     sensitive |-> Bool(TRUE)]
EmptyBody ==
    [description |-> Absent, type |-> Absent, default |-> Absent, sensitive |-> Absent]
OddBody ==
    [description |-> Num, type |-> Bool(TRUE), default |-> Num, sensitive |-> Str(<<"s">>)]

Bodies == {FullBody, EmptyBody, OddBody}

\* the list of n maps with the key sets doms that holds the blocks bs, each
\* a (list element, name, body), in their order
TreeOf(n, doms, bs) ==
    [i \in 1..n |->
        [nm \in doms[i] |->
            LET mine == SelectSeq(bs, LAMBDA blk : blk.elem = i /\ blk.name = nm)
            IN  [k \in 1..Len(mine) |-> mine[k].body]]]

InitExtract ==
    /\ pc = "call"
    /\ \E n \in 0..MaxElems, m \in 0..MaxBodies :
         \E doms \in [1..n -> SUBSET Names] :
            \E bs \in [1..m -> [elem : 1..n, name : Names, body : Bodies]] :
               /\ \A k \in 1..m : bs[k].name \in doms[bs[k].elem]
               /\ arg = [vs |-> TreeOf(n, doms, bs)]
    /\ stdout = <<>>
    /\ other = <<>>
    /\ variablesFile = Nil
    /\ outputsFile = Nil
    /\ hclVars = <<>>
    /\ hclOutputs = <<>>
    /\ ret = Nil

CallHclTable ==
    /\ pc = "call"
    /\ hclVars' \in hclTable(arg.vs)
    /\ pc' = "hclTable"
    /\ UNCHANGED <<stdout, other, variablesFile, outputsFile, hclOutputs, arg, ret>>

CallInputLoop ==
    /\ pc = "call"
    /\ hclVars' \in inputLoop(arg.vs)
    /\ pc' = "inputLoop"
    /\ UNCHANGED <<stdout, other, variablesFile, outputsFile, hclOutputs, arg, ret>>

CallOutputLoop ==
    /\ pc = "call"
    /\ hclOutputs' \in outputLoop(arg.vs)
    /\ pc' = "outputLoop"
    /\ UNCHANGED <<stdout, other, variablesFile, outputsFile, hclVars, arg, ret>>

NextExtract == CallHclTable \/ CallInputLoop \/ CallOutputLoop

SpecExtract == InitExtract /\ [][NextExtract]_vars

(***************************************************************************)
(* Claims about extraction.                                                *)
(***************************************************************************)
Extracted == IF pc = "outputLoop" THEN hclOutputs ELSE hclVars

\* what a row's text field is to hold for a field value: the string, or
\* the empty string when the field is absent or no string
ExpStr(v) == IF v.kind = "string" THEN v.s ELSE <<>>
ExpBool(v) == v.kind = "bool" /\ v.b

(***************************************************************************)
(* C2: extraction yields exactly one row for every declared block body of  *)
(* the list it is given: as many rows as bodies, none dropped, overwritten *)
(* or blank, in the order of the blocks (the order of the keys of one map  *)
(* being any order).                                                       *)
(***************************************************************************)
C2_OneRowPerBlock ==
    pc \in {"hclTable", "inputLoop", "outputLoop"} =>
        \E o \in OrderChoices(arg.vs) :
            LET vis == Visits(arg.vs, o)
            IN  /\ Len(Extracted) = Len(vis)
                /\ \A j \in 1..Len(vis) : Extracted[j].Name = <<vis[j].name>>

\* the same of hclTable alone (part_000:196-217), which holds
HclTableOneRowPerBlock == pc = "hclTable" => C2_OneRowPerBlock

(***************************************************************************)
(* C3 as stated: every row built has Name, Description, VarType,           *)
(* DefaultVal and Sensitive equal to the label and the fields of its       *)
(* block, the empty string (false) standing for a field that is absent or  *)
(* of another type.                                                        *)
(***************************************************************************)
AllFieldsOf(row, v) ==
    /\ row.Name = <<v.name>>
    /\ row.Description = ExpStr(v.body.description)
    /\ row.VarType = ExpStr(v.body.type)
    /\ row.DefaultVal = ExpStr(v.body.default)
    /\ row.Sensitive = ExpBool(v.body.sensitive)

\* the fields each extraction reads: hclTable all of them, the variables
\* loop of main.go all but sensitive, its outputs loop description and
\* sensitive
FieldsOfItsLoop(row, v) ==
    /\ row.Name = <<v.name>>
    /\ row.Description = ExpStr(v.body.description)
    /\ row.VarType = (IF pc = "outputLoop" THEN <<>> ELSE ExpStr(v.body.type))
    /\ row.DefaultVal = (IF pc = "outputLoop" THEN <<>> ELSE ExpStr(v.body.default))
    /\ row.Sensitive = (IF pc = "inputLoop" THEN FALSE ELSE ExpBool(v.body.sensitive))

\* the rows match the blocks they were built from: row j the j-th block
\* for hclTable, row i a block of list element i for the indexed loops
RowsMatch(all) ==
    \E o \in OrderChoices(arg.vs) :
        LET vis == Visits(arg.vs, o)
            Of(i) == {j \in 1..Len(vis) : vis[j].elem = i}
            Match(row, v) == IF all THEN AllFieldsOf(row, v) ELSE FieldsOfItsLoop(row, v)
        IN  IF pc = "hclTable"
            THEN /\ Len(Extracted) = Len(vis)
                 /\ \A j \in 1..Len(vis) : Match(Extracted[j], vis[j])
            ELSE /\ Len(Extracted) = Len(arg.vs)
                 /\ \A i \in 1..Len(arg.vs) :
                        Of(i) # {} => \E j \in Of(i) : Match(Extracted[i], vis[j])

ReadErr == [kind |-> "readerr", vs |-> <<>>]
ParseErr == [kind |-> "parseerr", vs |-> <<>>]
NoEntry == [kind |-> "noentry", vs |-> <<>>]
Doc(vs) == [kind |-> "doc", vs |-> vs]

RunBodies == {FullBody, EmptyBody}

\* the documents with at most n list elements and n blocks, named nm
Files(n, nm) ==
    {ReadErr, ParseErr, NoEntry} \cup
    UNION {UNION {{Doc(TreeOf(e, doms, bs)) :
                      bs \in {b \in [1..m -> [elem : 1..e, name : {nm}, body : RunBodies]] :
                                 \A k \in 1..m : b[k].name \in doms[b[k].elem]}}
                     : doms \in [1..e -> SUBSET {nm}]}
              : <<e, m>> \in (0..n) \X (0..n)}

\* strings.ToTitle of the base name of the working directory, "m"
TitleLine == <<"\n", "#", " ", "M", " ", "T", "e", "r", "r", "a", "f", "o", "r", "m", " ", "M", "o", "d", "u", "l", "e", "\n">>
OverviewHeading == <<"\n", "#", "#", " ", "O", "v", "e", "r", "v", "i", "e", "w", "\n", "\n">>
InputHeading == <<"\n", "#", "#", " ", "I", "n", "p", "u", "t", "\n", "\n">>
OutputHeading == <<"\n", "#", "#", " ", "O", "u", "t", "p", "u", "t", "\n", "\n">>
OutputHeader == <<"|", " ", "N", "a", "m", "e", " ", "|", " ", "D", "e", "s", "c", "r", "i", "p", "t", "i", "o", "n", " ", "|", " ", "S", "e", "n", "s", "i", "t", "i", "v", "e", " ", "|", "\n">>
OutputSeparator == <<"|", "-", "-", "-", "-", "-", "-", "|", "-", "-", "-", "-", "-", "-", "-", "-", "-", "-", "-", "-", "-", "|", ":", "-", "-", "-", "-", ":", "|", "\n">>
UsageHeading == <<"\n", "#", "#", " ", "U", "s", "a", "g", "e", "\n">>
\* "bq" stands for the backquote character
UsageFence == <<"\n", "bq", "bq", "bq", "\n", "\n", "bq", "bq", "bq", "\n">>
TroubleshootingHeading == <<"\n", "#", "#", " ", "T", "r", "o", "u", "b", "l", "e", "s", "h", "o", "o", "t", "i", "n", "g", "\n", "\n">>

\* html/template's escaping of a value in text context
HtmlEscapeChar(ch) ==
    CASE ch = "<" -> <<"&", "l", "t", ";">>
      [] ch = ">" -> <<"&", "g", "t", ";">>
      [] ch = "&" -> <<"&", "a", "m", "p", ";">>
      [] ch = "'" -> <<"&", "#", "3", "9", ";">>
      [] ch = "\"" -> <<"&", "#", "3", "4", ";">>
      [] OTHER -> <<ch>>

HtmlEscape(text) == Flatten([i \in 1..Len(text) |-> HtmlEscapeChar(text[i])])

\* outputTmpl executed on one row (part_000:374)
OutputRowText(out) ==
    <<"|", " ">> \o HtmlEscape(out.Name) \o <<" ", "|", " ">> \o HtmlEscape(out.Description)
        \o <<" ", "|", " ", " ">>
        \o (IF out.Sensitive THEN <<" ", "y", "e", "s", " ">> ELSE <<" ", "n", "o", " ">>)
        \o <<" ", "|", "\n">>

\* variablesTable (part_000:332-349)
variablesTable(rows) ==
    [columns |-> <<mdColumn(<<"N", "a", "m", "e">>, none, "nil"),
                   mdColumn(<<"D", "e", "s", "c", "r", "i", "p", "t", "i", "o", "n">>, left, "nil"),
                   mdColumn(<<"T", "y", "p", "e">>, center, "nil"),
                   mdColumn(<<"D", "e", "f", "a", "u", "l", "t">>, center, "nil"),
                   mdColumn(<<"R", "e", "q", "u", "i", "r", "e", "d">>, center, "boolFmt")>>,
     rows |-> [j \in 1..Len(rows) |->
                  <<Str(rows[j].Name), Str(rows[j].Description), Str(rows[j].VarType),
                    Str(rows[j].DefaultVal), Bool(rows[j].Required)>>]]

Init ==
    /\ pc = "title"
    /\ stdout = <<>>
    /\ other = <<>>
    /\ variablesFile \in Files(MaxBlocks, "v")
    /\ outputsFile \in Files(MaxOutBlocks, "o")
    /\ hclVars = <<>>
    /\ hclOutputs = <<>>
    /\ arg = Nil
    /\ ret = Nil

\* log.Fatalf: the message, then os.Exit(1)
Fatal(msg) ==
    /\ pc' = "fatal"
    /\ ret' = msg

\* a failed type assertion vars.([]map[string]interface{}) on a nil interface
Panic(msg) ==
    /\ pc' = "panic"
    /\ ret' = msg

\* part_000:296-299; os.Getwd may fail
PrintTitle ==
    /\ pc = "title"
    /\ \/ /\ stdout' = stdout \o TitleLine
          /\ pc' = "overview"
          /\ UNCHANGED ret
       \/ /\ Fatal("Error printing title")
          /\ UNCHANGED stdout
    /\ UNCHANGED <<other, variablesFile, outputsFile, hclVars, hclOutputs, arg>>

\* part_000:301-304
PrintOverview ==
    /\ pc = "overview"
    /\ stdout' = stdout \o OverviewHeading
    /\ pc' = "readVariables"
    /\ UNCHANGED <<other, variablesFile, outputsFile, hclVars, hclOutputs, arg, ret>>

\* part_000:306-321
ReadVariables ==
    /\ pc = "readVariables"
    /\ CASE variablesFile.kind = "readerr" ->
                Fatal("Error reading variables file") /\ UNCHANGED hclVars
         [] variablesFile.kind = "parseerr" ->
                Fatal("Error unmarshalling input") /\ UNCHANGED hclVars
         [] variablesFile.kind = "noentry" ->
                Panic("interface conversion: interface is nil") /\ UNCHANGED hclVars
         [] OTHER ->
                /\ hclVars' \in hclTable(variablesFile.vs)
                /\ pc' = "inputHeading"
                /\ UNCHANGED ret
    /\ UNCHANGED <<stdout, other, variablesFile, outputsFile, hclOutputs, arg>>

\* part_000:330
PrintInputHeading ==
    /\ pc = "inputHeading"
    /\ stdout' = stdout \o InputHeading
    /\ pc' = "inputTable"
    /\ UNCHANGED <<other, variablesFile, outputsFile, hclVars, hclOutputs, arg, ret>>

\* part_000:332-353; w is os.Stdout
PrintInputTable ==
    /\ pc = "inputTable"
    /\ \E r \in {markdownTable("stdout", variablesTable(hclVars))} :
          /\ stdout' = IF r.dest = "stdout" THEN stdout \o r.written ELSE stdout
          /\ other' = IF r.dest = "other" THEN other \o r.written ELSE other
          /\ IF r.err = Nil
             THEN pc' = "readOutputs" /\ UNCHANGED ret
             ELSE Fatal("Error printing variables md table")
    /\ UNCHANGED <<variablesFile, outputsFile, hclVars, hclOutputs, arg>>

\* part_000:355-371
ReadOutputs ==
    /\ pc = "readOutputs"
    /\ CASE outputsFile.kind = "readerr" ->
                Fatal("Error reading outputs file") /\ UNCHANGED hclOutputs
         [] outputsFile.kind = "parseerr" ->
                Fatal("Error unmarshalling") /\ UNCHANGED hclOutputs
         [] outputsFile.kind = "noentry" ->
                Panic("interface conversion: interface is nil") /\ UNCHANGED hclOutputs
         [] OTHER ->
                /\ hclOutputs' \in hclTable(outputsFile.vs)
                /\ pc' = "outputHeading"
                /\ UNCHANGED ret
    /\ UNCHANGED <<stdout, other, variablesFile, outputsFile, hclVars, arg>>

\* part_000:379-381
PrintOutputHeading ==
    /\ pc = "outputHeading"
    /\ stdout' = stdout \o OutputHeading \o OutputHeader \o OutputSeparator
    /\ pc' = "outputRows"
    /\ UNCHANGED <<other, variablesFile, outputsFile, hclVars, hclOutputs, arg, ret>>

\* part_000:382-386
PrintOutputRows ==
    /\ pc = "outputRows"
    /\ stdout' = stdout \o Flatten([j \in 1..Len(hclOutputs) |-> OutputRowText(hclOutputs[j])])
    /\ pc' = "usage"
    /\ UNCHANGED <<other, variablesFile, outputsFile, hclVars, hclOutputs, arg, ret>>

\* part_000:390-391
PrintUsage ==
    /\ pc = "usage"
    /\ stdout' = stdout \o UsageHeading \o UsageFence
    /\ pc' = "troubleshooting"
    /\ UNCHANGED <<other, variablesFile, outputsFile, hclVars, hclOutputs, arg, ret>>

\* part_000:394
PrintTroubleshooting ==
    /\ pc = "troubleshooting"
    /\ stdout' = stdout \o TroubleshootingHeading
    /\ pc' = "done"
    /\ UNCHANGED <<other, variablesFile, outputsFile, hclVars, hclOutputs, arg, ret>>

Next ==
    \/ PrintTitle
    \/ PrintOverview
    \/ ReadVariables
    \/ PrintInputHeading
    \/ PrintInputTable
    \/ ReadOutputs
    \/ PrintOutputHeading
    \/ PrintOutputRows
    \/ PrintUsage
    \/ PrintTroubleshooting

Spec == Init /\ [][Next]_vars

(***************************************************************************)
(* Reading the README back from standard output.                           *)
(***************************************************************************)
\* the line a heading puts on the stream
HeadingLine(h) == CHOOSE l \in {Split(h, "\n")[i] : i \in 1..Len(Split(h, "\n"))} : l # <<>>

Headings ==
    <<HeadingLine(TitleLine), HeadingLine(OverviewHeading), HeadingLine(InputHeading),
      HeadingLine(OutputHeading), HeadingLine(UsageHeading), HeadingLine(TroubleshootingHeading)>>

\* where a line occurs on the stream
At(lines, l) == {i \in 1..Len(lines) : lines[i] = l}

\* the table lines (those that start with a bar) strictly between two lines
TableLines(lines, from, to) ==
    LET T == {i \in (from + 1)..(to - 1) : lines[i] # <<>> /\ lines[i][1] = "|"}
        Kth(k) == CHOOSE i \in T : Cardinality({j \in T : j <= i}) = k
    IN  [k \in 1..Cardinality(T) |-> lines[Kth(k)]]

\* the table under a heading shows the rows: a header line, a separator
\* line, then one line per row that starts with the row's name
ShowsRows(tbl, rows) ==
    /\ Len(tbl) = 2 + Len(rows)
    /\ \A j \in 1..Len(rows) :
           /\ MdFramed(tbl[2 + j])
           /\ Trim(MdCells(tbl[2 + j])[1]) = rows[j].Name

(***************************************************************************)
(* C1: a run that completes has emitted the six headings, title, Overview, *)
(* Input, Output, Usage, Troubleshooting, each exactly once and in this    *)
(* order, every row of the Input table between the Input and the Output    *)
(* heading, every row of the Output table between the Output and the Usage *)
(* heading, and no table line anywhere else.                               *)
(***************************************************************************)
C1_HeadingsInOrder ==
    pc = "done" =>
        LET lines == StreamLines(stdout)
            P(k) == At(lines, Headings[k])
            pos(k) == CHOOSE i \in P(k) : TRUE
        IN  /\ \A k \in 1..6 : Cardinality(P(k)) = 1
            /\ \A k \in 1..5 : pos(k) < pos(k + 1)
            /\ ShowsRows(TableLines(lines, pos(3), pos(4)), hclVars)
            /\ ShowsRows(TableLines(lines, pos(4), pos(5)), hclOutputs)
            /\ TableLines(lines, 0, pos(3)) = <<>>
            /\ TableLines(lines, pos(5), Len(lines) + 1) = <<>>

C1_Witness ==
    /\ pc = "done"
    /\ Len(hclVars) = 2
    /\ Len(hclOutputs) = 1

(***************************************************************************)
(* C5: a variable declared without a default value (an empty Default cell) *)
(* has "no" in the Required column of the Input table.                     *)
(***************************************************************************)
C5_NoDefaultIsNotRequired ==
    pc = "done" =>
        LET lines == StreamLines(stdout)
            from == CHOOSE i \in At(lines, Headings[3]) : TRUE
            to == CHOOSE i \in At(lines, Headings[4]) : TRUE
            tbl == TableLines(lines, from, to)
        IN  \A j \in 3..Len(tbl) :
                Trim(MdCells(tbl[j])[4]) = <<>> => Trim(MdCells(tbl[j])[5]) = <<"n", "o">>

(***************************************************************************)
(* C9: a document without a "variable" entry (without an "output" entry)   *)
(* never makes the run crash: the run aborts with a reported error or      *)
(* completes with an empty table for the section.                          *)
(***************************************************************************)
C9_NoEntryNoCrash ==
    (variablesFile.kind = "noentry" \/ outputsFile.kind = "noentry") => pc # "panic"

(***************************************************************************)
(* The run of main in src/main.go:68-178, with exists (main.go:44-57).     *)
(* A file may also not exist ("notexist").                                 *)
(***************************************************************************)
NotExist == [kind |-> "notexist", vs |-> <<>>]

variablesFilename == "variables.tf"
outputFilename == "outputs.tf"

\* the file a name stands for
FileNamed(name) == IF name = variablesFilename THEN variablesFile ELSE outputsFile

\* exists(name): os.Stat looks at variablesFilename, whatever name is;
\* ioutil.ReadFile reads the file called name
exists(name) ==
    IF FileNamed(variablesFilename).kind = "notexist" THEN [out |-> Nil, ok |-> FALSE]
    ELSE IF FileNamed(name).kind \in {"notexist", "readerr"} THEN [out |-> Nil, ok |-> FALSE]
    ELSE [out |-> FileNamed(name), ok |-> TRUE]

InputHeader == <<"|", " ", "N", "a", "m", "e", " ", "|", " ", "D", "e", "s", "c", "r", "i", "p", "t", "i", "o", "n", " ", "|", " ", "T", "y", "p", "e", " ", "|", " ", "D", "e", "f", "a", "u", "l", "t", " ", "|", " ", "R", "e", "q", "u", "i", "r", "e", "d", " ", "|", "\n">>
InputSeparator == <<"|", "-", "-", "-", "-", "-", "-", "|", "-", "-", "-", "-", "-", "-", "-", "-", "-", "-", "-", "-", "-", "|", ":", "-", "-", "-", "-", ":", "|", ":", "-", "-", "-", "-", "-", ":", "|", ":", "-", "-", "-", "-", "-", ":", "|", "\n">>

\* inputTmpl executed on one row (main.go:111)
InputRowText(v) ==
    <<"|", " ">> \o HtmlEscape(v.Name) \o <<" ", "|", " ">> \o HtmlEscape(v.Description)
        \o <<" ", "|", " ">> \o HtmlEscape(v.VarType) \o <<" ", "|", " ">> \o HtmlEscape(v.DefaultVal)
        \o <<" ", "|", " ">>
        \o (IF v.Required THEN <<" ", "y", "e", "s", " ">> ELSE <<" ", "n", "o", " ">>)
        \o <<" ", "|", "\n">>

InitMainGo ==
    /\ pc = "title"
    /\ stdout = <<>>
    /\ other = <<>>
    /\ variablesFile \in {NotExist} \cup Files(MaxOutBlocks, "v")
    /\ outputsFile \in {NotExist} \cup Files(MaxOutBlocks, "o")
    /\ hclVars = <<>>
    /\ hclOutputs = <<>>
    /\ arg = Nil
    /\ ret = [out |-> Nil, ok |-> FALSE]

\* main.go:59-66, 69
MgPrintTitle ==
    /\ pc = "title"
    /\ \/ /\ stdout' = stdout \o TitleLine
          /\ pc' = "overview"
       \/ /\ pc' = "fatal"
          /\ UNCHANGED stdout
    /\ UNCHANGED <<other, variablesFile, outputsFile, hclVars, hclOutputs, arg, ret>>

\* main.go:72
MgPrintOverview ==
    /\ pc = "overview"
    /\ stdout' = stdout \o OverviewHeading
    /\ pc' = "readVariables"
    /\ UNCHANGED <<other, variablesFile, outputsFile, hclVars, hclOutputs, arg, ret>>

\* main.go:75-108: the variables section is entered only when exists says ok
MgReadVariables ==
    /\ pc = "readVariables"
    /\ arg' = variablesFilename
    /\ ret' = exists(variablesFilename)
    /\ IF ~exists(variablesFilename).ok
       THEN pc' = "readOutputs" /\ UNCHANGED hclVars
       ELSE CASE variablesFile.kind = "parseerr" -> pc' = "fatal" /\ UNCHANGED hclVars
              [] variablesFile.kind = "noentry" -> pc' = "panic" /\ UNCHANGED hclVars
              [] OTHER -> hclVars' \in inputLoop(variablesFile.vs) /\ pc' = "printInput"
    /\ UNCHANGED <<stdout, other, variablesFile, outputsFile, hclOutputs>>

\* main.go:110-123
MgPrintInput ==
    /\ pc = "printInput"
    /\ stdout' = stdout \o InputHeading \o InputHeader \o InputSeparator
                    \o Flatten([j \in 1..Len(hclVars) |-> InputRowText(hclVars[j])])
    /\ pc' = "readOutputs"
    /\ UNCHANGED <<other, variablesFile, outputsFile, hclVars, hclOutputs, arg, ret>>

\* main.go:127-154
MgReadOutputs ==
    /\ pc = "readOutputs"
    /\ arg' = outputFilename
    /\ ret' = exists(outputFilename)
    /\ IF ~exists(outputFilename).ok
       THEN pc' = "usage" /\ UNCHANGED hclOutputs
       ELSE CASE outputsFile.kind = "parseerr" -> pc' = "fatal" /\ UNCHANGED hclOutputs
              [] outputsFile.kind = "noentry" -> pc' = "panic" /\ UNCHANGED hclOutputs
              [] OTHER -> hclOutputs' \in outputLoop(outputsFile.vs) /\ pc' = "printOutput"
    /\ UNCHANGED <<stdout, other, variablesFile, outputsFile, hclVars>>

\* main.go:156-169
MgPrintOutput ==
    /\ pc = "printOutput"
    /\ stdout' = stdout \o OutputHeading \o OutputHeader \o OutputSeparator
                    \o Flatten([j \in 1..Len(hclOutputs) |-> OutputRowText(hclOutputs[j])])
    /\ pc' = "usage"
    /\ UNCHANGED <<other, variablesFile, outputsFile, hclVars, hclOutputs, arg, ret>>

\* main.go:172-174
MgPrintUsage ==
    /\ pc = "usage"
    /\ stdout' = stdout \o UsageHeading \o UsageFence
    /\ pc' = "troubleshooting"
    /\ UNCHANGED <<other, variablesFile, outputsFile, hclVars, hclOutputs, arg, ret>>

\* main.go:177
MgPrintTroubleshooting ==
    /\ pc = "troubleshooting"
    /\ stdout' = stdout \o TroubleshootingHeading
    /\ pc' = "done"
    /\ UNCHANGED <<other, variablesFile, outputsFile, hclVars, hclOutputs, arg, ret>>

NextMainGo ==
    \/ MgPrintTitle
    \/ MgPrintOverview
    \/ MgReadVariables
    \/ MgPrintInput
    \/ MgReadOutputs
    \/ MgPrintOutput
    \/ MgPrintUsage
    \/ MgPrintTroubleshooting

SpecMainGo == InitMainGo /\ [][NextMainGo]_vars

(***************************************************************************)
(* C4: the run aborts on the first error: when reading or parsing the      *)
(* variables file (the outputs file) fails, the run stops there and        *)
(* nothing that would follow is emitted.                                   *)
(***************************************************************************)
\* reading or parsing the file fails (a file that does not exist is left out)
Unusable(f) == f.kind \in {"readerr", "parseerr"}

C4_AbortsOnFirstError ==
    /\ Unusable(variablesFile) => pc \in {"title", "overview", "readVariables", "fatal"}
    /\ Unusable(outputsFile) =>
           pc \in {"title", "overview", "readVariables", "inputHeading", "inputTable",
                   "printInput", "readOutputs", "fatal", "panic"}

\* the same of the run of part_000:288-395, which holds under Spec
MainAbortsOnFirstError == C4_AbortsOnFirstError

(***************************************************************************)
(* C8: exists(name) returns false if the file called name does not exist   *)
(* and true with that file's content otherwise, whatever the other file    *)
(* is: its result depends only on the file named by its argument.          *)
(***************************************************************************)
C8_ExistsLooksAtItsFile ==
    arg \in {variablesFilename, outputFilename} =>
        /\ FileNamed(arg).kind = "notexist" => ~ret.ok
        /\ FileNamed(arg).kind \notin {"notexist", "readerr"} =>
               (ret.ok /\ ret.out = FileNamed(arg))

====
